---- MODULE Spec2Model ----
(***************************************************************************)
(* Model of the Pepsi tender PDF parser (src/main.py).                     *)
(*                                                                         *)
(* A document text is a sequence of lexemes.  A lexeme stands for a piece  *)
(* of the extracted text that the patterns of main.py treat as a unit: the *)
(* column banner HEADER_SPLIT, a newline, a blank, a label, a digit, a     *)
(* whole line that matches REGEX, an arbitrary word.  The Python value ""  *)
(* is the empty sequence.  A Python dict is a function from keys to        *)
(* values, a Python list a sequence; where a list may hold values of       *)
(* either type they are tagged (PyDict, PyList).                           *)
(***************************************************************************)
EXTENDS Integers, Sequences, FiniteSets, TLC

\* ------------------------------------------------------------------ bounds
MaxLen == 5        \* lexemes in the body of a document (capability model)
MaxFiles == 2      \* entries of a directory listing
MaxLocLen == 7     \* lexemes of a text given to get_location_id
MaxShipLen == 6    \* lexemes of a text given to _extract_ship_to
MaxPieces == 2     \* label/date pieces of a text given to the date extractors
MaxRun == 3        \* digits in one run of a date token
MaxRows == 3       \* items of the list given to insert_results_to_db

\* ------------------------------------------------------- program constants
CAPABILITY_NAME == "la_pepsi_tenders_pdf_parser"
HEADER_SPLIT == "PU Number Item Desc. PepsiCo Order# SAP Order# D Number PO Number Apt ID Pieces Pallets Weight Volume"
SECOND_HEADER == "Item Desc.PU Number D Number Apt IDSAP Order#"
NL == "\n"
SP == " "
Whitespace == {NL, SP}

\* ----------------------------------------------------------- text helpers
SeqsUpTo(S, n) == UNION {[1..k -> S] : k \in 0..n}

Positions(text, lex) == {i \in 1..Len(text) : text[i] = lex}

HasLexeme(text, lex) == Positions(text, lex) # {}

MinOf(S) == CHOOSE x \in S : \A y \in S : x <= y

MaxOf(S) == CHOOSE x \in S : \A y \in S : x >= y

\* str.split(sep) for a separator that is one lexeme: n occurrences give n+1 parts.
RECURSIVE Split(_, _)
Split(text, sep) ==
    IF ~HasLexeme(text, sep) THEN <<text>>
    ELSE LET i == MinOf(Positions(text, sep))
         IN  <<SubSeq(text, 1, i - 1)>> \o Split(SubSeq(text, i + 1, Len(text)), sep)

\* str.splitlines(): no line for the empty text, none after a final newline.
RECURSIVE SplitLines(_)
SplitLines(text) ==
    IF text = <<>> THEN <<>>
    ELSE IF ~HasLexeme(text, NL) THEN <<text>>
    ELSE LET i == MinOf(Positions(text, NL))
         IN  <<SubSeq(text, 1, i - 1)>> \o SplitLines(SubSeq(text, i + 1, Len(text)))

\* str.strip(): leading and trailing whitespace removed.
Strip(text) ==
    LET solid == {i \in 1..Len(text) : text[i] \notin Whitespace}
    IN  IF solid = {} THEN <<>> ELSE SubSeq(text, MinOf(solid), MaxOf(solid))

\* str.replace(lex, ""): every occurrence of the lexeme removed.
Remove(text, lex) == SelectSeq(text, LAMBDA c : c # lex)

\* ---------------------------------------------------------- Python values
PyDict(m) == [kind |-> "dict", val |-> m]

PyList(l) == [kind |-> "list", val |-> l]

EmptyDict == <<>>

ErrorMarker == PyDict([error |-> <<"PDF not found">>])

\* ------------------------------------------------------ header extraction
LOCATION_ID == "Location ID:"
Digits == {"0", "1"}

\* First index >= p of text that holds no whitespace (Len(text)+1 if none): \s*
SkipSpace(text, p) ==
    LET solid == {i \in p..Len(text) : text[i] \notin Whitespace}
    IN  IF solid = {} THEN Len(text) + 1 ELSE MinOf(solid)

\* Length of the run of digits that starts at index p: \d+
DigitRunLen(text, p) ==
    LET stop == {i \in p..Len(text) : text[i] \notin Digits}
    IN  IF p > Len(text) THEN 0
        ELSE IF stop = {} THEN Len(text) - p + 1 ELSE MinOf(stop) - p

\* re.findall(LOCATION_ID_REGEX, text): the digit groups of the matches, left to
\* right, non-overlapping, looking from index p on.
RECURSIVE FindAllLocationId(_, _)
FindAllLocationId(text, p) ==
    LET hits == {i \in p..Len(text) :
                    /\ text[i] = LOCATION_ID
                    /\ DigitRunLen(text, SkipSpace(text, i + 1)) >= 1}
    IN  IF hits = {} THEN <<>>
        ELSE LET i  == MinOf(hits)
                 ds == SkipSpace(text, i + 1)
                 de == ds + DigitRunLen(text, ds) - 1
             IN  <<SubSeq(text, ds, de)>> \o FindAllLocationId(text, de + 1)

\* str.lstrip("0")
LStripZeros(digits) ==
    LET solid == {i \in 1..Len(digits) : digits[i] # "0"}
    IN  IF solid = {} THEN <<>> ELSE SubSeq(digits, MinOf(solid), Len(digits))

FirstMatch(matches) == matches[1]

\* matches[1] of line 117 (0-based): the second match
SecondMatch(matches) == matches[2]

get_location_id(text) ==
    LET matches == FindAllLocationId(text, 1)
    IN  IF Len(matches) >= 2 THEN LStripZeros(SecondMatch(matches)) ELSE <<>>

\* The four date patterns.  bounded says whether the month and day runs are
\* \d{1,2} (at most two digits) or \d{1,} (any number of digits).
DELIVERY_DATE_REGEX == [label |-> "DELIVERY", bounded |-> TRUE]
DELIVERY_DATE_ALT_REGEX == [label |-> "DELIVERY", bounded |-> TRUE]
PICKUP_DATE_REGEX == [label |-> "PICKUP", bounded |-> TRUE]
PICKUP_DATE_ALT_REGEX == [label |-> "PICKUP", bounded |-> FALSE]

RunOk(n, bounded) == n >= 1 /\ (bounded => n <= 2)

\* Index of the last lexeme of a date matched at index p, 0 when none matches:
\* digits '/' digits '/' two digits.
DateEnd(text, p, bounded) ==
    LET r1 == DigitRunLen(text, p)
        s1 == p + r1
        r2 == DigitRunLen(text, s1 + 1)
        s2 == s1 + 1 + r2
    IN  IF /\ RunOk(r1, bounded)
           /\ s1 <= Len(text) /\ text[s1] = "/"
           /\ RunOk(r2, bounded)
           /\ s2 <= Len(text) /\ text[s2] = "/"
           /\ DigitRunLen(text, s2 + 1) >= 2
        THEN s2 + 2 ELSE 0

\* re.search(regex, text).group(1), <<>> when there is no match: the leftmost
\* label followed by a newline and a date.
DateSearch(regex, text) ==
    LET hits == {i \in 1..Len(text) :
                    /\ text[i] = regex.label
                    /\ i + 1 <= Len(text) /\ text[i + 1] = NL
                    /\ DateEnd(text, i + 2, regex.bounded) # 0}
    IN  IF hits = {} THEN <<>>
        ELSE LET i == MinOf(hits)
             IN  SubSeq(text, i + 2, DateEnd(text, i + 2, regex.bounded))

ExtractDate(main, alt, text) ==
    LET m     == DateSearch(main, text)
        parts == Split(text, SECOND_HEADER)
    IN  IF m # <<>> THEN m
        ELSE IF Len(parts) > 1 /\ DateSearch(alt, parts[2]) # <<>>
             THEN DateSearch(alt, parts[2])
             ELSE <<>>

_extract_pickup_date(text) == ExtractDate(PICKUP_DATE_REGEX, PICKUP_DATE_ALT_REGEX, text)

_extract_delivery_date(text) == ExtractDate(DELIVERY_DATE_REGEX, DELIVERY_DATE_ALT_REGEX, text)

LOAD_NUMBER == "Load Number:"

\* LOAD_NUMBER_REGEX: the rest of the line after the first label, stripped.
_extract_invoice_ref(text) ==
    IF ~HasLexeme(text, LOAD_NUMBER) THEN <<>>
    ELSE LET i    == MinOf(Positions(text, LOAD_NUMBER))
             ends == {j \in (i + 1)..Len(text) : text[j] = NL}
             e    == IF ends = {} THEN Len(text) ELSE MinOf(ends) - 1
         IN  Strip(SubSeq(text, i + 1, e))

LOCATION_NAME == "Location Name:"
ARRIVE == "ARRIVE"
ADDRESS == "Address: "
APPOINTMENT == "Appointment Info\n"

\* re.search(SHIP_TO_REGEX, segment, re.S | re.M).group(1) after the two
\* replace calls and strip; <<>> when there is no match.  The match starts at
\* the leftmost label that is followed by whitespace and, later, by ARRIVE;
\* the greedy group runs to the last ARRIVE of the segment.
ShipSearch(segment) ==
    LET hits == {i \in 1..Len(segment) :
                    /\ segment[i] = LOCATION_NAME
                    /\ i + 1 <= Len(segment) /\ segment[i + 1] \in Whitespace
                    /\ \E j \in SkipSpace(segment, i + 1)..Len(segment) : segment[j] = ARRIVE}
    IN  IF hits = {} THEN <<>>
        ELSE LET i == MinOf(hits)
                 k == SkipSpace(segment, i + 1)
                 j == MaxOf(Positions(segment, ARRIVE))
             IN  Strip(Remove(Remove(SubSeq(segment, k, j - 1), ADDRESS), APPOINTMENT))

\* line 332
ShipToGuard(parts) == Len(parts) > 2

_extract_ship_to(text) ==
    LET parts == Split(text, HEADER_SPLIT)
    IN  IF ShipToGuard(parts) THEN ShipSearch(parts[2]) ELSE <<>>

_extract_ship_from(text) ==
    LET parts == Split(text, HEADER_SPLIT)
    IN  IF Len(parts) > 1 THEN ShipSearch(parts[1]) ELSE <<>>

\* The three searches of _extract_temp need the second header, "OMS" or
\* "OTHERS"; on a text with none of them every search misses, temp stays ""
\* and the final re.sub leaves "" unchanged.  Only that path is modelled: no
\* document of this model carries those lexemes together with line items.
_extract_temp(text) == <<>>

STOP_ONE_ADDRESS == "DC Milton ON DWD Address: 1890 READING COURT Appointment Info MILTON, ON L9T2X8"

StopId(text) == IF HasLexeme(text, STOP_ONE_ADDRESS) THEN <<"21200Y">> ELSE <<>>

header_data(text, name) ==
    [vendorname   |-> <<"Pepsi Co Tender">>,
     pickupDate   |-> _extract_pickup_date(text),
     deliveryDate |-> _extract_delivery_date(text),
     invoiceRef   |-> _extract_invoice_ref(text),
     shipTo       |-> _extract_ship_to(text),
     ship_from    |-> _extract_ship_from(text),
     temp         |-> _extract_temp(text),
     locationId   |-> get_location_id(text),
     stopId       |-> StopId(text),
     filename     |-> <<name>>]

\* --------------------------------------------------- line items and rows
\* A value a Python call gives back: exc is the message of the exception it
\* raised ("" when it returned), val the value it returned.
Returned(v) == [exc |-> "", val |-> v]

Raised(msg) == [exc |-> msg, val |-> <<>>]

\* Lines that match REGEX in full, with the groups the pattern captures.  R1
\* has no three-letter code (group 4 does not take part), R2 has one.
RowGroups ==
    [R1 |-> [g1 |-> <<"ORD-10001">>, g2 |-> <<"AB1">>, g3 |-> <<"PO771">>, g4 |-> <<>>,
             g5 |-> <<"1,200">>, g6 |-> <<"10">>, g7 |-> <<"4,500">>, g8 |-> <<"320">>],
     R2 |-> [g1 |-> <<"ORD-20002">>, g2 |-> <<"CD2">>, g3 |-> <<"PO-882">>, g4 |-> <<"ABC">>,
             g5 |-> <<"75A">>, g6 |-> <<"2">>, g7 |-> <<"900">>, g8 |-> <<"1,015">>]]

RowLexemes == DOMAIN RowGroups

\* re.match(REGEX, line.strip()): the row lexeme of a line that is, whitespace
\* aside, exactly one matching row; "" for any other line.
MatchLine(line) ==
    LET s == Strip(line)
    IN  IF Len(s) = 1 /\ s[1] \in RowLexemes THEN s[1] ELSE ""

\* list[i] = v, with i the 0-based index
SetItem(rec, i, v) ==
    IF rec.exc # "" THEN rec
    ELSE IF i >= Len(rec.val) THEN Raised("list assignment index out of range")
    ELSE Returned([rec.val EXCEPT ![i + 1] = v])

\* list[i], with i the 0-based index (a negative one counts from the end)
GetItem(list, i) ==
    IF i >= 0 /\ i < Len(list) THEN Returned(list[i + 1])
    ELSE IF i < 0 /\ -i <= Len(list) THEN Returned(list[Len(list) + i + 1])
    ELSE Raised("list index out of range")

\* The assignments of lines 221-238, in the order of the code.
Assignments(header, m) ==
    << <<0, header.vendorname>>, <<1, header.pickupDate>>, <<2, header.deliveryDate>>,
       <<8, header.shipTo>>, <<9, header.temp>>, <<10, header.invoiceRef>>,
       <<12, header.locationId>>, <<13, header.stopId>>, <<14, header.filename>>,
       <<15, header.ship_from>>,
       <<3, m.g3>>, <<4, m.g5>>, <<5, m.g6>>, <<6, m.g7>>, <<7, m.g8>>, <<11, m.g1>> >>

RECURSIVE Assign(_, _)
Assign(rec, assignments) ==
    IF assignments = <<>> THEN rec
    ELSE Assign(SetItem(rec, Head(assignments)[1], Head(assignments)[2]), Tail(assignments))

BuildRecord(column_count, header, m) ==
    Assign(Returned([i \in 1..column_count |-> <<>>]), Assignments(header, m))

\* field.get("id"): None and 0 are both false at line 244, and both are 0 here.
FieldId(field) == IF "id" \in DOMAIN field THEN field.id ELSE 0

\* lines 241-245
RECURSIVE Project(_, _, _)
Project(format, record, sql_mapping) ==
    IF format = <<>> THEN Returned(sql_mapping)
    ELSE LET field == Head(format)
             idx   == FieldId(field)
             item  == GetItem(record, idx - 1)
         IN  IF idx = 0 THEN Project(Tail(format), record, sql_mapping)
             ELSE IF item.exc # "" THEN item
             ELSE Project(Tail(format), record,
                          (field.sql_column_name :> item.val) @@ sql_mapping)

BuildRow(config, header, m) ==
    LET record == BuildRecord(config.columnCount, header, m)
    IN  IF record.exc # "" THEN record
        ELSE Project(config.format, record.val, EmptyDict)

\* records.append(sql_mapping), line 247
AppendRecord(records, sql_mapping) == Append(records, PyDict(sql_mapping))

\* the loop of lines 210-247
RECURSIVE ProcessLines(_, _, _, _)
ProcessLines(lines, config, header, records) ==
    IF lines = <<>> THEN Returned(records)
    ELSE LET r == MatchLine(Head(lines))
         IN  IF r = "" THEN ProcessLines(Tail(lines), config, header, records)
             ELSE LET row == BuildRow(config, header, RowGroups[r])
                  IN  IF row.exc # "" THEN row
                      ELSE ProcessLines(Tail(lines), config, header,
                                        AppendRecord(records, row.val))

BannerGuardAlways(parts) == Len(parts) > 0

\* line 209
BannerGuard(parts) == Len(parts) > 1

\* lines 203-260
LineItems(text, config, header) ==
    LET parts == Split(text, HEADER_SPLIT)
    IN  IF BannerGuard(parts)
        THEN IF Len(parts) >= 2
             THEN ProcessLines(SplitLines(parts[2]), config, header, <<>>)
             ELSE Raised("list index out of range")
        ELSE Returned(<<>>)

\* file: the name of the file and what the file system holds for it when it is
\* processed (exists, readable by extract_pdf_text, its text).
_process_pdf(file, config) ==
    IF ~file.exists THEN Returned(<<ErrorMarker>>)
    ELSE IF ~file.readable THEN Raised("cannot open PDF")
    ELSE LineItems(file.text, config, header_data(file.text, file.name))

\* ------------------------------------------------- inputs of the capability
\* config.json as load_json finds it: absent, without its "format" key, or a
\* columnCount with a format list.
FormatExample ==
    << [id |-> 1, sql_column_name |-> "a"], [id |-> 3, sql_column_name |-> "c"] >>

FormatFull ==
    << [id |-> 1, sql_column_name |-> "vendorname"], [id |-> 2, sql_column_name |-> "pickupDate"],
       [id |-> 3, sql_column_name |-> "delDate"], [id |-> 4, sql_column_name |-> "po"],
       [sql_column_name |-> "description"],
       [id |-> 5, sql_column_name |-> "cases"], [id |-> 6, sql_column_name |-> "pallets"],
       [id |-> 7, sql_column_name |-> "weight"], [id |-> 8, sql_column_name |-> "cubes"],
       [id |-> 9, sql_column_name |-> "shipto"], [id |-> 10, sql_column_name |-> "temp"],
       [id |-> 11, sql_column_name |-> "invoiceRef"], [id |-> 12, sql_column_name |-> "vendorRef"],
       [id |-> 13, sql_column_name |-> "vendorno"], [id |-> 14, sql_column_name |-> "consignee"],
       [id |-> 15, sql_column_name |-> "filename"], [id |-> 16, sql_column_name |-> "ship_from"] >>

FormatWide ==
    << [id |-> 17, sql_column_name |-> "template_flag"], [id |-> 4, sql_column_name |-> "po"] >>

OkConfig(n, f) == [kind |-> "ok", columnCount |-> n, format |-> f]

BadConfig(k) == [kind |-> k, columnCount |-> 0, format |-> <<>>]

Configs ==
    { BadConfig("missing"), BadConfig("no_format"),
      OkConfig(3, FormatExample), OkConfig(16, FormatFull),
      OkConfig(16, FormatWide), OkConfig(17, FormatWide) }

\* str(e) of the exception load_json or __init__ raises on a bad config
ConfigError(cfg) ==
    IF cfg.kind = "missing" THEN "No such file or directory: config.json" ELSE "'format'"

\* File names of a directory listing, and whether f.lower().endswith(".pdf").
Names == {"a.pdf", "B.PDF", "notes.txt"}

LowerSuffix == [n \in Names |-> IF n = "notes.txt" THEN ".txt" ELSE ".pdf"]

EndsWithPdf(name) == LowerSuffix[name] = ".pdf"

Listings == {l \in SeqsUpTo(Names, MaxFiles) : \A i, j \in 1..Len(l) : i # j => l[i] # l[j]}

Path(k, n, l) == [kind |-> k, name |-> n, listing |-> l]

\* pdf_path: None, "", the path of one document, or a directory.
Paths ==
    {Path("none", "", <<>>), Path("empty", "", <<>>), Path("file", "a.pdf", <<>>)}
    \cup {Path("dir", "", l) : l \in Listings}

\* The documents of the capability model: an empty text, one without the
\* banner, one row, rows between other lines, two banners, a load number, a
\* tender with both stops.
Documents ==
    { <<>>,
      <<"x", NL, "R1">>,
      <<HEADER_SPLIT, NL, "R1">>,
      <<"x", HEADER_SPLIT, NL, "R2", NL, "x", NL, "R1", "x", NL, SP, "R1", NL>>,
      <<HEADER_SPLIT, "R2", NL, "R1", NL, HEADER_SPLIT, NL, "R1">>,
      <<LOAD_NUMBER, SP, "L-7", NL, HEADER_SPLIT, NL, "R1", NL, "R1">>,
      <<LOCATION_ID, "1", NL, LOCATION_NAME, SP, "DC West", NL, ARRIVE, NL,
        HEADER_SPLIT, NL, LOCATION_ID, SP, "0", "1", NL,
        LOCATION_NAME, SP, ADDRESS, "DC East", NL, ARRIVE, NL, "R1", NL, "R2", NL,
        HEADER_SPLIT, NL, STOP_ONE_ADDRESS>> }

\* What the file system holds for a file at the moment it is processed.
FileState(e, r, t) == [exists |-> e, readable |-> r, text |-> t]

FileStatesOver(T) ==
    {FileState(FALSE, FALSE, <<>>), FileState(TRUE, FALSE, <<>>)}
    \cup {FileState(TRUE, TRUE, t) : t \in T}

FileStates == FileStatesOver(Documents)

File(name, fs) ==
    [name |-> name, exists |-> fs.exists, readable |-> fs.readable, text |-> fs.text]

\* ------------------------------------------------------ capability model
VARIABLES
    pc,         \* "idle", "map" (inside executor.map), "single", "returned"
    pdf_path,   \* the argument of la_pepsi_tenders_pdf_parser
    config,     \* the configuration the parser loaded
    pdfs,       \* the files _process_directory (or process) still has to process
    results,    \* results of _process_directory
    doc,        \* the file _process_pdf was last called on
    ret,        \* what that call gave back
    processed,  \* history: name, existence and return value of each finished call
    response,   \* the mapping la_pepsi_tenders_pdf_parser returns
    input,      \* argument of the function a function model applies
    output,     \* what the function gave back
    applied,    \* whether the function has been applied
    db          \* insert_results_to_db and the database it writes to

capVars == <<pc, pdf_path, config, pdfs, results, doc, ret, processed, response>>

fnVars == <<input, output, applied>>

vars == <<capVars, fnVars, db>>

NoResponse == [pending |-> TRUE]

NoDoc == [name |-> "", exists |-> FALSE, readable |-> FALSE, text |-> <<>>]

ErrorResponsePartial(msg) ==
    [error |-> msg, capability |-> CAPABILITY_NAME, result |-> results]

\* lines 373-377
ErrorResponse(msg) == [error |-> msg, capability |-> CAPABILITY_NAME]

ResultResponse(result) == [result |-> result, capability |-> CAPABILITY_NAME]

CapInit ==
    /\ pc = "idle"
    /\ pdf_path = Path("none", "", <<>>)
    /\ config = BadConfig("missing")
    /\ pdfs = <<>>
    /\ results = <<>>
    /\ doc = NoDoc
    /\ ret = Returned(<<>>)
    /\ processed = <<>>
    /\ response = NoResponse

FnIdle == input = <<>> /\ output = <<>> /\ applied = FALSE

NoDb == [pc |-> "unused"]

Init == CapInit /\ FnIdle /\ db = NoDb

\* the comprehension of lines 157-161
ListPdfs(listing) == SelectSeq(listing, EndsWithPdf)

\* la_pepsi_tenders_pdf_parser up to the dispatch in process(): the argument
\* check, the constructor, os.path.isdir.
Call(p, cfg) ==
    /\ pc = "idle"
    /\ pdf_path' = p
    /\ config' = cfg
    /\ UNCHANGED <<results, doc, ret, processed, fnVars, db>>
    /\ IF p.kind \in {"none", "empty"}
       THEN /\ response' = ErrorResponse("pdf_path is required")
            /\ pc' = "returned"
            /\ pdfs' = <<>>
       ELSE IF cfg.kind # "ok"
       THEN /\ response' = ErrorResponse(ConfigError(cfg))
            /\ pc' = "returned"
            /\ pdfs' = <<>>
       ELSE IF p.kind = "dir"
       THEN /\ response' = response
            /\ pc' = "map"
            /\ pdfs' = ListPdfs(p.listing)
       ELSE /\ response' = response
            /\ pc' = "single"
            /\ pdfs' = <<p.name>>

ExtendFront(list, result) == result \o list

\* results.extend(result), line 167
Extend(list, result) == list \o result

\* One round of the loop of lines 165-167: the worker's next _process_pdf call
\* and the extend; an exception of the call leaves la_pepsi_tenders_pdf_parser
\* through its except clause.
ProcessNext(fs) ==
    /\ pc = "map"
    /\ pdfs # <<>>
    /\ LET file == File(Head(pdfs), fs)
           r    == _process_pdf(file, config)
       IN  /\ doc' = file
           /\ ret' = r
           /\ pdfs' = Tail(pdfs)
           /\ IF r.exc # ""
              THEN /\ response' = ErrorResponse(r.exc)
                   /\ pc' = "returned"
                   /\ UNCHANGED <<results, processed>>
              ELSE /\ results' = Extend(results, r.val)
                   /\ processed' = Append(processed,
                         [name |-> file.name, exists |-> file.exists, val |-> r.val])
                   /\ UNCHANGED <<pc, response>>
    /\ UNCHANGED <<pdf_path, config, fnVars, db>>

\* line 169 and lines 368-371
ReturnDirectory ==
    /\ pc = "map"
    /\ pdfs = <<>>
    /\ response' = ResultResponse(results)
    /\ pc' = "returned"
    /\ UNCHANGED <<pdf_path, config, pdfs, results, doc, ret, processed, fnVars, db>>

\* [self._process_pdf(self.pdf_path)], line 154
Wrap(records) == <<PyList(records)>>

ProcessSingle(fs) ==
    /\ pc = "single"
    /\ LET file == File(Head(pdfs), fs)
           r    == _process_pdf(file, config)
       IN  /\ doc' = file
           /\ ret' = r
           /\ pdfs' = Tail(pdfs)
           /\ pc' = "returned"
           /\ IF r.exc # ""
              THEN /\ response' = ErrorResponse(r.exc)
                   /\ UNCHANGED processed
              ELSE /\ response' = ResultResponse(Wrap(r.val))
                   /\ processed' = Append(processed,
                         [name |-> file.name, exists |-> file.exists, val |-> r.val])
    /\ UNCHANGED <<pdf_path, config, results, fnVars, db>>

Next ==
    \/ \E p \in Paths, cfg \in Configs : Call(p, cfg)
    \/ \E fs \in FileStates : ProcessNext(fs)
    \/ ReturnDirectory
    \/ \E fs \in FileStates : ProcessSingle(fs)

Spec == Init /\ [][Next]_vars

\* ---------------------------------------------- claims on the capability
HasResult == pc = "returned" /\ "result" \in DOMAIN response

HasError == pc = "returned" /\ "error" \in DOMAIN response

RECURSIVE ConcatVals(_)
ConcatVals(history) ==
    IF history = <<>> THEN <<>> ELSE Head(history).val \o ConcatVals(Tail(history))

\* s and t have the same length and hold, place by place, the same mappings
SameMappings(s, t) ==
    /\ Len(s) = Len(t)
    /\ \A k \in 1..Len(s) : s[k].kind = "dict" /\ t[k].kind = "dict" /\ s[k].val = t[k].val

\* C1: whenever the capability returns a result, for a single document as for
\* a directory, every element of the result is a mapping (a row or an error
\* marker), none is a list.
C1_FlatResult ==
    HasResult => \A k \in 1..Len(response.result) : response.result[k].kind = "dict"

\* What holds of the code: a directory's result is flat, a single document's
\* result is one list that holds the rows.
C1_Observed ==
    HasResult =>
        IF pdf_path.kind = "dir"
        THEN \A k \in 1..Len(response.result) : response.result[k].kind = "dict"
        ELSE Len(response.result) = 1 /\ response.result[1].kind = "list"

\* C5: a file that is missing when it is processed raises nothing and adds
\* exactly one error marker to the result, and the rows of the other files are
\* in the result too: the result is, file after file, what each file gave.
C5_MissingFile ==
    /\ (doc # NoDoc /\ ~doc.exists) => ret = Returned(<<ErrorMarker>>)
    /\ (HasResult /\ \E i \in 1..Len(processed) : ~processed[i].exists) =>
          /\ \A i \in 1..Len(processed) :
                ~processed[i].exists => processed[i].val = <<ErrorMarker>>
          /\ SameMappings(response.result, ConcatVals(processed))

\* The same for directories alone, where it holds.
C5_Directory == pdf_path.kind = "dir" => C5_MissingFile

ExpectedError ==
    IF pdf_path.kind \in {"none", "empty"} THEN "pdf_path is required"
    ELSE IF config.kind # "ok" THEN ConfigError(config)
    ELSE ret.exc

\* C6: a returned response always carries the capability; with no pdf_path, or
\* after an exception of the configuration loading or of the processing, it is
\* exactly {error, capability} with the exception's message, and otherwise
\* exactly {result, capability}; every call that has not returned can go on.
C6_ErrorShape ==
    /\ pc = "returned" =>
          /\ "capability" \in DOMAIN response
          /\ response.capability = CAPABILITY_NAME
          /\ IF ExpectedError # ""
             THEN DOMAIN response = {"error", "capability"} /\ response.error = ExpectedError
             ELSE DOMAIN response = {"result", "capability"}
    /\ pc \in {"map", "single"} => ENABLED Next

\* An exception in the second file of a directory, after the first gave rows.
C6_Witness == HasError /\ ret.exc # "" /\ results # <<>> /\ pdf_path.kind = "dir"

KthSmallest(S, k) == CHOOSE p \in S : Cardinality({q \in S : q < p}) = k - 1

\* Index of the lexeme that ends the segment after the first banner
SegmentEnd(text) ==
    LET b == Positions(text, HEADER_SPLIT)
    IN  IF Cardinality(b) >= 2 THEN KthSmallest(b, 2) - 1 ELSE Len(text)

\* The positions of the rows of text that stand alone on a line of the segment
\* after the first banner: between the row and the line's ends (a newline, the
\* banner before, the end of the segment) there is whitespace only.
RowPositions(text) ==
    IF ~HasLexeme(text, HEADER_SPLIT) THEN {}
    ELSE LET first == MinOf(Positions(text, HEADER_SPLIT))
             last  == SegmentEnd(text)
         IN  {p \in (first + 1)..last :
                 /\ text[p] \in RowLexemes
                 /\ \A q \in (first + 1)..last :
                       (q # p /\ text[q] # SP) =>
                          \E n \in (first + 1)..last :
                             text[n] = NL /\ ((q <= n /\ n < p) \/ (p < n /\ n <= q))}

HeaderColumns ==
    {"vendorname", "pickupDate", "delDate", "shipto", "temp", "invoiceRef",
     "vendorno", "consignee", "filename", "ship_from"}

\* C10: in a directory the files are processed in the order of the listing and
\* the result is their contributions one after the other; a document's rows
\* are one per matching line after the first banner, in the order of the
\* lines, and agree on every header column.
C10_Ordering ==
    /\ pdf_path.kind = "dir" =>
          LET pdfPos == {i \in 1..Len(pdf_path.listing) : EndsWithPdf(pdf_path.listing[i])}
          IN  /\ Len(processed) <= Cardinality(pdfPos)
              /\ \A k \in 1..Len(processed) :
                    processed[k].name = pdf_path.listing[KthSmallest(pdfPos, k)]
              /\ pc = "map" => SameMappings(results, ConcatVals(processed))
              /\ HasResult => /\ Len(processed) = Cardinality(pdfPos)
                              /\ SameMappings(response.result, ConcatVals(processed))
    /\ (doc.exists /\ doc.readable /\ ret.exc = "") =>
          LET rows == RowPositions(doc.text)
          IN  /\ Len(ret.val) = Cardinality(rows)
              /\ \A k \in 1..Len(ret.val) :
                    LET row == ret.val[k].val
                        m   == RowGroups[doc.text[KthSmallest(rows, k)]]
                    IN  /\ "po" \in DOMAIN row /\ row.po = m.g3
                        /\ "vendorRef" \in DOMAIN row => row.vendorRef = m.g1
                        /\ \A c \in HeaderColumns \cap DOMAIN row :
                              row[c] = ret.val[1].val[c]

\* Two documents of a directory returned: the first gave two different rows.
C10_Witness ==
    /\ HasResult /\ pdf_path.kind = "dir" /\ Len(processed) = 2
    /\ Len(processed[1].val) >= 2 /\ Len(processed[2].val) >= 1
    /\ processed[1].val[1] # processed[1].val[2]
    /\ processed[1].val[1].kind = "dict"
    /\ "filename" \in DOMAIN processed[1].val[1].val

\* ------------------------------------------------- _process_pdf on its own
OkConfigs == {c \in Configs : c.kind = "ok"}

\* Texts of at most MaxLen lexemes after an optional load-number line.
Headers == {<<>>, <<LOAD_NUMBER, SP, "L-7", NL>>}

BodyLexemes == {HEADER_SPLIT, NL, "R1", "R2", "x"}

Texts == {h \o b : h \in Headers, b \in SeqsUpTo(BodyLexemes, MaxLen)}

InitPdf ==
    /\ CapInit /\ db = NoDb
    /\ applied = FALSE /\ output = <<>>
    /\ input \in {[file |-> File("a.pdf", fs), config |-> cfg] :
                     fs \in FileStatesOver(Texts), cfg \in OkConfigs}

ApplyProcessPdf ==
    /\ ~applied
    /\ applied' = TRUE
    /\ output' = _process_pdf(input.file, input.config)
    /\ UNCHANGED <<input, capVars, db>>

SpecPdf == InitPdf /\ [][ApplyProcessPdf]_vars

Readable(file) == file.exists /\ file.readable

\* C2: a document whose text does not hold the column banner gives an empty
\* list of records and raises nothing, whatever else the text holds and
\* whatever the configuration.
C2_NoBanner ==
    (applied /\ Readable(input.file) /\ ~HasLexeme(input.file.text, HEADER_SPLIT)) =>
        output = Returned(<<>>)

\* A text with two lines that match REGEX but no banner, under columnCount 3.
C2_Witness ==
    /\ applied /\ Readable(input.file)
    /\ ~HasLexeme(input.file.text, HEADER_SPLIT)
    /\ HasLexeme(input.file.text, "R1") /\ HasLexeme(input.file.text, "R2")
    /\ input.config.columnCount = 3
    /\ output = Returned(<<>>)

IdsInRange(cfg) ==
    \A k \in 1..Len(cfg.format) :
        "id" \in DOMAIN cfg.format[k] => cfg.format[k].id \in 1..cfg.columnCount

WithId(format) == {k \in 1..Len(format) : "id" \in DOMAIN format[k]}

\* The value of positional slot p of the row built for header h and match m
SlotValue(h, m, p) ==
    CASE p = 1 -> h.vendorname [] p = 2 -> h.pickupDate [] p = 3 -> h.deliveryDate
      [] p = 4 -> m.g3 [] p = 5 -> m.g5 [] p = 6 -> m.g6 [] p = 7 -> m.g7
      [] p = 8 -> m.g8 [] p = 9 -> h.shipTo [] p = 10 -> h.temp
      [] p = 11 -> h.invoiceRef [] p = 12 -> m.g1 [] p = 13 -> h.locationId
      [] p = 14 -> h.stopId [] p = 15 -> h.filename [] p = 16 -> h.ship_from
      [] OTHER -> <<>>

RowsProjected ==
    LET text == input.file.text
        fmt  == input.config.format
        h    == header_data(text, input.file.name)
        rows == RowPositions(text)
    IN  /\ output.exc = ""
        /\ Len(output.val) = Cardinality(rows)
        /\ \A k \in 1..Len(output.val) :
              LET row == output.val[k].val
                  m   == RowGroups[text[KthSmallest(rows, k)]]
              IN  /\ DOMAIN row = {fmt[d].sql_column_name : d \in WithId(fmt)}
                  /\ \A d \in WithId(fmt) :
                        row[fmt[d].sql_column_name] = SlotValue(h, m, fmt[d].id)

\* C4: for any configuration whose format ids lie in 1..columnCount, a
\* document with a matching line gives, for each such line, a row whose keys
\* are the names of the descriptors that carry an id, each mapped to the value
\* of slot id-1, and building the rows does not fail; columnCount 3 with the
\* ids 1 and 3 included.
C4_RowProjection ==
    (/\ applied /\ Readable(input.file)
     /\ IdsInRange(input.config)
     /\ RowPositions(input.file.text) # {}) => RowsProjected

\* What holds of the code: the projection is as claimed once columnCount is at
\* least 16; below 16 the assignment to a fixed slot raises IndexError.
C4_Observed ==
    (/\ applied /\ Readable(input.file)
     /\ IdsInRange(input.config)
     /\ RowPositions(input.file.text) # {}) =>
        IF input.config.columnCount >= 16 THEN RowsProjected
        ELSE output = Raised("list assignment index out of range")

\* ---------------------------------------------- get_location_id on its own
LocLexemes == {LOCATION_ID, "0", "1", SP, "x"}

InitLocationId ==
    /\ CapInit /\ db = NoDb
    /\ applied = FALSE /\ output = <<>>
    /\ input \in SeqsUpTo(LocLexemes, MaxLocLen)

ApplyLocationId ==
    /\ ~applied
    /\ applied' = TRUE
    /\ output' = get_location_id(input)
    /\ UNCHANGED <<input, capVars, db>>

SpecLocationId == InitLocationId /\ [][ApplyLocationId]_vars

\* Where "Location ID:" is followed, after any whitespace, by a digit
Occurrences(text) ==
    {i \in 1..Len(text) :
        /\ text[i] = LOCATION_ID
        /\ \E j \in (i + 1)..Len(text) :
              text[j] \in Digits /\ \A q \in (i + 1)..(j - 1) : text[q] \in Whitespace}

\* The digits of the occurrence at index i: the whole run of digits
DigitsOf(text, i) ==
    LET j == MinOf({q \in (i + 1)..Len(text) : text[q] \in Digits})
        e == MaxOf({q \in j..Len(text) : \A r \in j..q : text[r] \in Digits})
    IN  SubSeq(text, j, e)

\* v is ds without its leading zeros
IsStripped(v, ds) ==
    \E z \in 0..Len(ds) :
        /\ \A q \in 1..z : ds[q] = "0"
        /\ v = SubSeq(ds, z + 1, Len(ds))
        /\ (v = <<>> \/ v[1] # "0")

\* C7: with two or more occurrences of "Location ID: <digits>" the result is
\* the digits of the second one, in text order, without their leading zeros,
\* whatever the first and the later ones are; with fewer than two it is "".
C7_LocationId ==
    applied =>
        IF Cardinality(Occurrences(input)) >= 2
        THEN IsStripped(output, DigitsOf(input, KthSmallest(Occurrences(input), 2)))
        ELSE output = <<>>

\* Three occurrences; the second has a leading zero and differs from the first.
C7_Witness ==
    /\ applied
    /\ Cardinality(Occurrences(input)) >= 3
    /\ DigitsOf(input, KthSmallest(Occurrences(input), 2)) = <<"0", "1">>
    /\ DigitsOf(input, KthSmallest(Occurrences(input), 1)) = <<"0">>
    /\ output = <<"1">>

\* --------------------------------------------- _extract_ship_to on its own
ShipLexemes == {HEADER_SPLIT, LOCATION_NAME, SP, ARRIVE, ADDRESS, APPOINTMENT, "DC East"}

InitShipTo ==
    /\ CapInit /\ db = NoDb
    /\ applied = FALSE /\ output = <<>>
    /\ input \in SeqsUpTo(ShipLexemes, MaxShipLen)

ApplyShipTo ==
    /\ ~applied
    /\ applied' = TRUE
    /\ output' = _extract_ship_to(input)
    /\ UNCHANGED <<input, capVars, db>>

SpecShipTo == InitShipTo /\ [][ApplyShipTo]_vars

\* The segment after the first banner, up to the next banner or the end
AfterFirstBanner(text) ==
    SubSeq(text, MinOf(Positions(text, HEADER_SPLIT)) + 1, SegmentEnd(text))

\* C3: whenever the banner occurs at least once, shipTo is what the search for
\* "Location Name: <text> ARRIVE" finds in the segment after the first banner,
\* labels removed and trimmed; shipTo is empty only when the banner is absent
\* or that search finds nothing.
C3_ShipTo ==
    applied =>
        output = IF HasLexeme(input, HEADER_SPLIT)
                 THEN ShipSearch(AfterFirstBanner(input))
                 ELSE <<>>

\* What holds of the code: the segment is searched only when the banner
\* occurs twice or more; with one banner shipTo is empty.
C3_Observed ==
    applied =>
        output = IF Cardinality(Positions(input, HEADER_SPLIT)) >= 2
                 THEN ShipSearch(AfterFirstBanner(input))
                 ELSE <<>>

\* ---------------------------------------- the date extractors on their own
Run(n) == [i \in 1..n |-> "1"]

DateTokens ==
    {Run(a) \o <<"/">> \o Run(b) \o <<"/">> \o Run(c) : a, b, c \in 1..MaxRun}

Labels == {"PICKUP", "DELIVERY"}

\* The pieces a text is made of: the second header, a word, a label and a
\* newline before a date token, a label and a blank before a date.
Pieces ==
    {<<SECOND_HEADER>>, <<"x">>}
    \cup {<<l, NL>> \o d : l \in Labels, d \in DateTokens}
    \cup {<<l, SP>> \o Run(1) \o <<"/">> \o Run(1) \o <<"/">> \o Run(2) : l \in Labels}

RECURSIVE Flatten(_)
Flatten(pieces) ==
    IF pieces = <<>> THEN <<>> ELSE Head(pieces) \o Flatten(Tail(pieces))

DateTexts == {Flatten(ps) : ps \in SeqsUpTo(Pieces, MaxPieces)}

InitDates ==
    /\ CapInit /\ db = NoDb
    /\ applied = FALSE /\ output = <<>>
    /\ input \in DateTexts

ApplyDates ==
    /\ ~applied
    /\ applied' = TRUE
    /\ output' = [PICKUP   |-> _extract_pickup_date(input),
                  DELIVERY |-> _extract_delivery_date(input)]
    /\ UNCHANGED <<input, capVars, db>>

SpecDates == InitDates /\ [][ApplyDates]_vars

\* v is one or two digits, '/', one or two digits, '/', two digits
IsDateShape(v) ==
    \E a, b \in 1..2 :
        /\ Len(v) = a + b + 4
        /\ \A q \in 1..Len(v) :
              IF q = a + 1 \/ q = a + b + 2 THEN v[q] = "/" ELSE v[q] \in Digits

\* v stands in text right after the label and a newline, at index i + 2
FollowsLabelAt(text, label, v, i) ==
    /\ i + 1 + Len(v) <= Len(text)
    /\ text[i] = label /\ text[i + 1] = NL
    /\ SubSeq(text, i + 2, i + 1 + Len(v)) = v

\* The places of text where the label, a newline and a date of the shape stand
ShapedAt(text, label) ==
    {i \in 1..Len(text) :
        \E n \in 5..8 : n <= Len(text) - i - 1
                        /\ IsDateShape(SubSeq(text, i + 2, i + 1 + n))
                        /\ FollowsLabelAt(text, label, SubSeq(text, i + 2, i + 1 + n), i)}

DateClaim(text, label, v) ==
    /\ v = <<>> \/ (IsDateShape(v) /\ \E i \in 1..Len(text) : FollowsLabelAt(text, label, v, i))
    /\ ShapedAt(text, label) # {} =>
          FollowsLabelAt(text, label, v, MinOf(ShapedAt(text, label)))

\* C8: pickupDate and deliveryDate are each "" or a date of the shape 1-2
\* digits '/' 1-2 digits '/' 2 digits that follows its label and a newline;
\* when the whole text holds such a date the first one is the value, so the
\* search after the second header decides only when the whole text has none,
\* and it accepts the same shape.
C8_Dates ==
    applied => \A l \in Labels : DateClaim(input, l, output[l])

\* What holds of the code: deliveryDate is as claimed; pickupDate taken after
\* the second header may have month and day runs of any length.
C8_Observed ==
    applied =>
        /\ DateClaim(input, "DELIVERY", output.DELIVERY)
        /\ IsDateShape(output.PICKUP) => DateClaim(input, "PICKUP", output.PICKUP)
        /\ ~HasLexeme(input, SECOND_HEADER) => DateClaim(input, "PICKUP", output.PICKUP)

\* ------------------------------------------------- insert_results_to_db
TABLE_COLUMNS_WHITELIST ==
    {"vendorname", "po", "vendorRef", "vendorno", "shipto", "consignee", "customer",
     "vendorLoadAt", "delDate", "lifts", "pickApptNo", "weight", "pallets", "cases",
     "cubes", "invoiceRef", "temp", "pickupDate", "template_flag", "description",
     "ship_from", "shipment_type", "item_id", "monday_group_name", "email_from",
     "filename", "audit_runs", "audit_status"}

\* The SQL NULL that line 65 sends for an empty string
SqlNull == <<"NULL">>

\* The items of a result list: a row with an empty value, a row with a key
\* that is no column of the table, a row with no column of the table at all,
\* the marker of a missing file, and a list (what process() gives for a
\* single document).
SinkItems ==
    { PyDict([po |-> <<"PO771">>, cases |-> <<>>]),
      PyDict([po |-> <<"PO-882">>, orderNo |-> <<"ORD-20002">>]),
      PyDict([orderNo |-> <<"ORD-10001">>]),
      ErrorMarker,
      PyList(<<PyDict([po |-> <<"PO771">>, cases |-> <<>>])>>) }

\* lines 57-61: the columns of a row that is inserted, {} for a skipped item
Cols(row) ==
    IF row.kind # "dict" THEN {}
    ELSE IF "error" \in DOMAIN row.val THEN {}
    ELSE {k \in DOMAIN row.val : k \in TABLE_COLUMNS_WHITELIST}

\* lines 62-65: the column values of the INSERT statement
Inserted(row) == [c \in Cols(row) |-> IF row.val[c] # <<>> THEN row.val[c] ELSE SqlNull]

Outcome(n, msg) == [rows_inserted |-> n, error_message |-> msg]

\* error_message None is ""
NoError == ""

IdleDb ==
    [pc |-> "idle", results |-> <<>>, i |-> 1, rows_inserted |-> 0,
     transactional |-> FALSE, pending |-> <<>>, table |-> <<>>,
     outcome |-> Outcome(0, NoError)]

InitSink == CapInit /\ FnIdle /\ db = IdleDb

\* Lines 50-55.  installed: whether mysql.connector could be imported;
\* connects: whether connect() succeeds; transactional: whether the table's
\* engine keeps the inserts of a connection apart until its commit (the
\* connector opens connections with autocommit off).
SinkCall(rs, installed, connects, transactional) ==
    /\ db.pc = "idle"
    /\ db' = IF ~installed
             THEN [db EXCEPT !.pc = "done", !.results = rs,
                             !.outcome = Outcome(0, "mysql-connector-python not installed")]
             ELSE IF ~connects
             THEN [db EXCEPT !.pc = "done", !.results = rs,
                             !.outcome = Outcome(0, "cannot connect")]
             ELSE [db EXCEPT !.pc = "loop", !.results = rs,
                             !.transactional = transactional]
    /\ UNCHANGED <<capVars, fnVars>>

\* rows_inserted += 1, line 67
CountInserted(n) == n + 1

\* One round of the loop of lines 56-67; executes: whether cursor.execute
\* succeeds.  When it raises, the function returns from its except clause
\* without commit and without closing the connection: what the connection
\* had inserted and not committed is rolled back when it is dropped.
SinkRow(executes) ==
    /\ db.pc = "loop"
    /\ db.i <= Len(db.results)
    /\ LET row == db.results[db.i]
       IN  db' = IF Cols(row) = {}
                 THEN [db EXCEPT !.i = db.i + 1]
                 ELSE IF ~executes
                 THEN [db EXCEPT !.pc = "done", !.pending = <<>>,
                                 !.outcome = Outcome(db.rows_inserted, "execute failed")]
                 ELSE IF db.transactional
                 THEN [db EXCEPT !.i = db.i + 1,
                                 !.rows_inserted = CountInserted(db.rows_inserted),
                                 !.pending = Append(db.pending, Inserted(row))]
                 ELSE [db EXCEPT !.i = db.i + 1,
                                 !.rows_inserted = CountInserted(db.rows_inserted),
                                 !.table = Append(db.table, Inserted(row))]
    /\ UNCHANGED <<capVars, fnVars>>

\* lines 68-73; commits: whether conn.commit() succeeds
SinkCommit(commits) ==
    /\ db.pc = "loop"
    /\ db.i > Len(db.results)
    /\ db' = IF commits
             THEN [db EXCEPT !.pc = "done", !.pending = <<>>,
                             !.table = db.table \o db.pending,
                             !.outcome = Outcome(db.rows_inserted, NoError)]
             ELSE [db EXCEPT !.pc = "done", !.pending = <<>>,
                             !.outcome = Outcome(db.rows_inserted, "commit failed")]
    /\ UNCHANGED <<capVars, fnVars>>

NextSink ==
    \/ \E rs \in SeqsUpTo(SinkItems, MaxRows), a, b, c \in BOOLEAN : SinkCall(rs, a, b, c)
    \/ \E ok \in BOOLEAN : SinkRow(ok)
    \/ \E ok \in BOOLEAN : SinkCommit(ok)

SpecSink == InitSink /\ [][NextSink]_vars

\* The items that are rows with a column of the table, as they are inserted
Eligible(rs) ==
    LET keep == SelectSeq(rs, LAMBDA r : r.kind = "dict"
                                         /\ IF r.kind = "dict"
                                            THEN /\ "error" \notin DOMAIN r.val
                                                 /\ DOMAIN r.val \cap TABLE_COLUMNS_WHITELIST # {}
                                            ELSE FALSE)
    IN  [k \in 1..Len(keep) |->
            [c \in DOMAIN keep[k].val \cap TABLE_COLUMNS_WHITELIST |->
                IF keep[k].val[c] = <<>> THEN SqlNull ELSE keep[k].val[c]]]

\* C9: markers and non-mappings are skipped, each other row is inserted with
\* its whitelisted keys only, and the count returned is the number of rows
\* persisted in the table: all the eligible rows on success, and the rows
\* inserted before the failing one, which stay persisted, on a failure.
C9_SinkCount ==
    db.pc = "done" =>
        /\ db.outcome.rows_inserted = Len(db.table)
        /\ db.table = SubSeq(Eligible(db.results), 1, db.outcome.rows_inserted)
        /\ db.outcome.error_message = NoError => db.table = Eligible(db.results)

\* What holds of the code: the count is the number of inserts that were
\* executed; they are persisted on success, and after a failure only where
\* the table's engine is not transactional.
C9_Observed ==
    db.pc = "done" =>
        /\ db.outcome.rows_inserted <= Len(Eligible(db.results))
        /\ db.outcome.error_message = NoError =>
              /\ db.table = Eligible(db.results)
              /\ db.outcome.rows_inserted = Len(db.table)
        /\ db.outcome.error_message # NoError =>
              db.table = IF db.transactional THEN <<>>
                         ELSE SubSeq(Eligible(db.results), 1, db.outcome.rows_inserted)

====
